---- MODULE Spec2Model ----
(***************************************************************************)
(* delete-rest: the selection / filter / reconcile / execute pipeline.     *)
(*                                                                         *)
(* A path is a record [dir, name]: dir is the sequence of directory        *)
(* components, name the final component as an OsStr, [utf8, chars]; chars  *)
(* is the tuple of its characters and <<>> stands for a path without a     *)
(* final component (file_name() is None).                                  *)
(***************************************************************************)
EXTENDS Integers, Sequences, FiniteSets, TLC

\* ------------------------------------------------------------ bounds
\* longest file name enumerated for the keep-list matchers
MaxNameLen == 3
\* longest keep list
MaxKeep == 2
\* most paths a scan returns
MaxFiles == 2
\* most filters stacked on a file source
MaxChain == 2
\* longest line of a keep file
MaxLineLen == 2

\* ------------------------------------------------------------ options
NoneNum == [some |-> FALSE, val |-> 0]
NoneStr == [some |-> FALSE, val |-> <<>>]
Some(v) == [some |-> TRUE, val |-> v]

\* ------------------------------------------------------------ characters
\* "U3" stands for U+0663 ARABIC-INDIC DIGIT THREE: the regex class \d is
\* Unicode-aware and matches it, u32::from_str does not accept it.
AsciiDigits == {"0", "1", "2"}
UnicodeDigits == {"U3"}
IsDigit(c) == c \in AsciiDigits \cup UnicodeDigits
DigitValue(c) == CASE c = "0" -> 0 [] c = "1" -> 1 [] c = "2" -> 2 [] OTHER -> 0
ToAsciiLowercase(c) == CASE c = "J" -> "j" [] c = "T" -> "t" [] c = "A" -> "a" [] OTHER -> c

RECURSIVE SeqsUpTo(_, _)
SeqsUpTo(S, n) ==
  IF n = 0 THEN {<<>>}
  ELSE LET shorter == SeqsUpTo(S, n - 1)
       IN  shorter \cup {Append(s, x) : s \in {t \in shorter : Len(t) = n - 1}, x \in S}

Range(s) == {s[i] : i \in 1..Len(s)}
Last(s) == s[Len(s)]

\* ------------------------------------------------------------ std::path
OsStr(chars) == [utf8 |-> TRUE, chars |-> chars]
\* Path::file_name: None when the path has no final component
FileName(path) == IF path.name.chars = <<>> THEN [some |-> FALSE, val |-> OsStr(<<>>)] ELSE Some(path.name)
\* OsStr::to_str: None when the bytes are not valid UTF-8
ToStr(os) == IF os.utf8 THEN Some(os.chars) ELSE NoneStr

\* ------------------------------------------------------------ keepfile.rs
RECURSIVE FindDigit(_, _)
\* leftmost-first regex search: the least index >= i holding a \d, 0 when none
FindDigit(s, i) ==
  IF i > Len(s) THEN 0 ELSE IF IsDigit(s[i]) THEN i ELSE FindDigit(s, i + 1)

RECURSIVE ScanDigits(_, _)
\* greedy \d+ from a digit at i: the index of the last character of the run
ScanDigits(s, i) ==
  IF i < Len(s) /\ IsDigit(s[i + 1]) THEN ScanDigits(s, i + 1) ELSE i

\* Regex::captures for (\d+): the groups of the leftmost match, group 0 (the
\* whole match) then group 1
RegexCaptures(s) ==
  LET b == FindDigit(s, 1)
  IN  IF b = 0 THEN [some |-> FALSE, val |-> <<>>]
      ELSE LET m == SubSeq(s, b, ScanDigits(s, b)) IN Some(<<m, m>>)

RECURSIVE ParseFold(_, _, _)
ParseFold(run, i, acc) ==
  IF i > Len(run) THEN Some(acc)
  ELSE IF run[i] \notin AsciiDigits THEN NoneNum
  ELSE ParseFold(run, i + 1, acc * 10 + DigitValue(run[i]))

\* str::parse::<u32>: ASCII digits only, after one optional '+'.  A text long
\* enough to exceed u32 (ten digits) is beyond MaxNameLen and MaxLineLen, so the
\* overflow error is not reachable within the bounds.
ParseU32(run) ==
  LET digits == IF run # <<>> /\ run[1] = "+" THEN Tail(run) ELSE run
  IN  IF digits = <<>> THEN NoneNum ELSE ParseFold(digits, 1, 0)

\* the capture taken from the end of the name instead of the leftmost match
MatchesNumberLastRun(filename, num) ==
  LET idx == {i \in 1..Len(filename) : IsDigit(filename[i])}
  IN  IF idx = {} THEN FALSE
      ELSE LET e == CHOOSE i \in idx : \A j \in idx : j <= i
               b == CHOOSE i \in idx : (\A k \in i..e : k \in idx)
                                       /\ (i = 1 \/ (i - 1) \notin idx)
               p == ParseU32(SubSeq(filename, b, e))
           IN  p.some /\ p.val = num

\* map_or(true, ..) in place of map_or(false, ..)
MatchesNumberDefaultTrue(filename, num) ==
  LET cap == RegexCaptures(filename)
  IN  IF ~cap.some THEN TRUE
      ELSE LET p == ParseU32(Last(cap.val)) IN IF ~p.some THEN TRUE ELSE p.val = num

\* KeepFile::matches_number
matches_number(filename, num) ==
  LET cap == RegexCaptures(filename)
  IN  IF ~cap.some THEN FALSE
      ELSE LET p == ParseU32(Last(cap.val)) IN IF ~p.some THEN FALSE ELSE p.val = num

\* KeepFile::into_inclusion_matcher, applied to a path
into_inclusion_matcher(lines, path) ==
  LET f == FileName(path)
      filename == IF f.some THEN ToStr(f.val) ELSE NoneStr
  IN  IF ~filename.some THEN FALSE
      ELSE \E i \in 1..Len(lines) : matches_number(filename.val, lines[i])

\* the negation dropped from the closure
ExclusionWithoutNegation(lines, path) ==
  LET f == FileName(path)
      filename == IF f.some THEN ToStr(f.val) ELSE NoneStr
  IN  IF ~filename.some THEN FALSE
      ELSE \A i \in 1..Len(lines) : matches_number(filename.val, lines[i])

\* KeepFile::into_exclusion_matcher, applied to a path
into_exclusion_matcher(lines, path) ==
  LET f == FileName(path)
      filename == IF f.some THEN ToStr(f.val) ELSE NoneStr
  IN  IF ~filename.some THEN FALSE
      ELSE \A i \in 1..Len(lines) : ~matches_number(filename.val, lines[i])

\* A keep file is the sequence of its lines as BufRead::lines yields them:
\* [utf8, chars], utf8 FALSE for a line lines() fails to read as text.
KeepFileLine(ord) == ord
KeepFileBadLine(num, line) == [num |-> num, line |-> line]
\* the results of try_load
OkKeepFile(lines) == [kind |-> "KeepFile", lines |-> lines, invalid |-> <<>>]
ErrFormat(invalid) == [kind |-> "Format", lines |-> <<>>, invalid |-> invalid]
ErrIo == [kind |-> "Io", lines |-> <<>>, invalid |-> <<>>]

\* lines().enumerate(), the lines that could not be read filtered out, each
\* other line parsed
ParsedLines(file) ==
  LET enumerated == [i \in 1..Len(file) |-> [num |-> i - 1, line |-> file[i]]]
      read == SelectSeq(enumerated, LAMBDA e : e.line.utf8)
  IN  [k \in 1..Len(read) |->
         [num |-> read[k].num, line |-> read[k].line.chars, ord |-> ParseU32(read[k].line.chars)]]

\* partition_result
PartitionResult(parsed) ==
  LET oks == SelectSeq(parsed, LAMBDA r : r.ord.some)
      errs == SelectSeq(parsed, LAMBDA r : ~r.ord.some)
  IN  [valid |-> [k \in 1..Len(oks) |-> KeepFileLine(oks[k].ord.val)],
       invalid |-> [k \in 1..Len(errs) |-> KeepFileBadLine(errs[k].num + 1, errs[k].line)]]

RECURSIVE Unique(_)
\* a list without the later occurrences of its elements
Unique(list) ==
  IF list = <<>> THEN <<>>
  ELSE LET front == Unique(SubSeq(list, 1, Len(list) - 1))
       IN  IF Last(list) \in Range(front) THEN front ELSE Append(front, Last(list))

\* the numbers collected without their repetitions
TryLoadUnique(opened, file) ==
  IF ~opened THEN ErrIo
  ELSE LET parts == PartitionResult(ParsedLines(file))
       IN  IF parts.invalid = <<>> THEN OkKeepFile(Unique(parts.valid))
           ELSE ErrFormat(parts.invalid)

\* KeepFile::try_load: opened is whether File::open succeeded
try_load(opened, file) ==
  IF ~opened THEN ErrIo
  ELSE LET parts == PartitionResult(ParsedLines(file))
       IN  IF parts.invalid = <<>> THEN OkKeepFile(parts.valid) ELSE ErrFormat(parts.invalid)

\* ------------------------------------------------------------ config.rs
\* Path::extension: None without a final component or without a '.' in it, None
\* when the only '.' leads the name, else the part after the last '.'.  In a name
\* that is not valid UTF-8 the invalid bytes are taken to lie before the last '.'.
Extension(path) ==
  LET f == FileName(path)
  IN  IF ~f.some THEN [some |-> FALSE, val |-> OsStr(<<>>)]
      ELSE LET s == f.val.chars
               dots == {i \in 1..Len(s) : s[i] = "."}
           IN  IF dots = {} THEN [some |-> FALSE, val |-> OsStr(<<>>)]
               ELSE LET d == CHOOSE i \in dots : \A j \in dots : j <= i
                    IN  IF d = 1 THEN [some |-> FALSE, val |-> OsStr(<<>>)]
                        ELSE Some(OsStr(SubSeq(s, d + 1, Len(s))))

\* str::to_ascii_lowercase
Lowercase(s) == [i \in 1..Len(s) |-> ToAsciiLowercase(s[i])]

\* the regular expressions a configuration can hold
DefaultFormat == ".+\\d+"
PrefixFormat == "^a"
\* Regex::is_match, an unanchored search: .+\d+ needs a digit with at least one
\* character before it, ^a needs the text to start with 'a'
IsMatch(re, s) ==
  CASE re = DefaultFormat -> \E k \in 2..Len(s) : IsDigit(s[k])
    [] re = PrefixFormat -> Len(s) >= 1 /\ s[1] = "a"
    [] OTHER -> FALSE

\* the extension compared as written, without to_ascii_lowercase
HasExtensionCaseSensitive(config, path) ==
  LET e == Extension(path)
      ext == IF e.some THEN ToStr(e.val) ELSE NoneStr
  IN  IF ~ext.some THEN FALSE ELSE ext.val \in Range(config.extensions)

\* ConfigFile::has_extension
has_extension(config, path) ==
  LET e == Extension(path)
      ext == IF e.some THEN ToStr(e.val) ELSE NoneStr
  IN  IF ~ext.some THEN FALSE ELSE Lowercase(ext.val) \in Range(config.extensions)

RECURSIVE Display(_)
\* Path::display of an absolute directory: every component led by '/'
Display(dir) == IF dir = <<>> THEN <<>> ELSE <<"/", dir[1]>> \o Display(Tail(dir))

\* the expression searched in the whole path instead of its file name
FormatMatchesWholePath(re, path) ==
  LET f == FileName(path)
      file_name == IF f.some THEN ToStr(f.val) ELSE NoneStr
  IN  IF ~file_name.some THEN [some |-> FALSE, val |-> FALSE]
      ELSE Some(IsMatch(re, Display(path.dir) \o <<"/">> \o file_name.val))

\* Format::matches
FormatMatches(re, path) ==
  LET f == FileName(path)
      file_name == IF f.some THEN ToStr(f.val) ELSE NoneStr
  IN  IF ~file_name.some THEN [some |-> FALSE, val |-> FALSE]
      ELSE Some(IsMatch(re, file_name.val))

\* ConfigFile::has_format
has_format(config, path) ==
  \E i \in 1..Len(config.formats) :
     LET m == FormatMatches(config.formats[i], path) IN m.some /\ m.val

\* the two checks joined by || in place of &&
MatchesEither(config, path) == has_extension(config, path) \/ has_format(config, path)

\* ConfigFile::matches
matches(config, path) == has_extension(config, path) /\ has_format(config, path)

\* ConfigFile::into_filter, applied to a path
into_filter(config, path) == matches(config, path)

\* ------------------------------------------------------------ action.rs
NoneDir == [some |-> FALSE, val |-> <<>>]
Delete == [kind |-> "Delete", op |-> "-", dir |-> <<>>]
MoveOrCopyTo(op, dir) == [kind |-> "MoveOrCopyTo", op |-> op, dir |-> dir]
\* the directory of the no-flag default, PathBuf::from("selected")
SelectedDir == <<"selected">>

\* the first two arms of the match exchanged
ActionNewMoveFirst(copy_to, move_to, delete) ==
  IF move_to.some THEN MoveOrCopyTo("Move", move_to.val)
  ELSE IF copy_to.some THEN MoveOrCopyTo("Copy", copy_to.val)
  ELSE IF ~delete THEN MoveOrCopyTo("Copy", SelectedDir)
  ELSE Delete

\* Action::new: match (move_to, copy_to, delete), the arms tried in order
ActionNew(copy_to, move_to, delete) ==
  IF copy_to.some THEN MoveOrCopyTo("Copy", copy_to.val)
  ELSE IF move_to.some THEN MoveOrCopyTo("Move", move_to.val)
  ELSE IF ~move_to.some /\ ~copy_to.some /\ ~delete THEN MoveOrCopyTo("Copy", SelectedDir)
  ELSE Delete

\* MoveOrCopy::description
description(op) == IF op = "Move" THEN "moved" ELSE "copied"

\* Path::parent: None for a path with no final component and no directory
Parent(path) == IF path.name.chars = <<>> /\ path.dir = <<>> THEN NoneDir ELSE Some(path.dir)

\* ------------------------------------------------------------ file_source.rs
\* A file source is [dir, files, matchers]: SelectedFiles wrapped by one
\* FilteredFiles per matcher, innermost first.  A matcher is the closure a
\* configuration or a keep list was converted into.
ConfigMatcher(config) == [kind |-> "filter", config |-> config, lines |-> <<>>]
InclusionMatcher(lines) ==
  [kind |-> "inclusion", config |-> [extensions |-> <<>>, formats |-> <<>>], lines |-> lines]
ExclusionMatcher(lines) ==
  [kind |-> "exclusion", config |-> [extensions |-> <<>>, formats |-> <<>>], lines |-> lines]

\* any other closure Rc<dyn Fn(&&PathBuf) -> bool>, by the paths it accepts
FnMatcher(accept) == [kind |-> "fn", accept |-> accept]
\* the closure |p| a(p) && b(p)
AndMatcher(a, b) == [kind |-> "and", a |-> a, b |-> b]

RECURSIVE Call(_, _)
\* calling the closure
Call(m, path) ==
  CASE m.kind = "filter" -> into_filter(m.config, path)
    [] m.kind = "inclusion" -> into_inclusion_matcher(m.lines, path)
    [] m.kind = "exclusion" -> into_exclusion_matcher(m.lines, path)
    [] m.kind = "fn" -> path \in m.accept
    [] m.kind = "and" -> Call(m.a, path) /\ Call(m.b, path)

SelectedFiles(dir, files) == [dir |-> dir, files |-> files, matchers |-> <<>>]

\* FileSource::filter_by
filter_by(source, filter) == [source EXCEPT !.matchers = Append(@, filter)]

\* FilteredFiles::source
SourceOf(fs) == [fs EXCEPT !.matchers = SubSeq(@, 1, Len(@) - 1)]

\* the outermost matcher applied to the files of the innermost source, the
\* filters in between passed over
IterOutermostOnly(fs) ==
  IF fs.matchers = <<>> THEN fs.files
  ELSE SelectSeq(fs.files, LAMBDA p : Call(Last(fs.matchers), p))

RECURSIVE Iter(_)
\* FileSource::iter: SelectedFiles yields its files, FilteredFiles yields
\* source.iter().filter(matcher)
Iter(fs) ==
  IF fs.matchers = <<>> THEN fs.files
  ELSE SelectSeq(Iter(SourceOf(fs)), LAMBDA p : Call(Last(fs.matchers), p))

\* the elements of the unfiltered list counted
CountOfSource(fs) == Len(fs.files)

\* FileSource::count
Count(fs) == Len(Iter(fs))

\* FileSource::dir, forwarded to the innermost source
Dir(fs) == fs.dir

\* a path outside the base reduced to its file name
StripPrefixOrFileName(path, base) ==
  IF Len(base) <= Len(path.dir) /\ SubSeq(path.dir, 1, Len(base)) = base
  THEN Some([dir |-> SubSeq(path.dir, Len(base) + 1, Len(path.dir)), name |-> path.name])
  ELSE Some([dir |-> <<>>, name |-> path.name])

\* Path::strip_prefix
StripPrefix(path, base) ==
  IF Len(base) <= Len(path.dir) /\ SubSeq(path.dir, 1, Len(base)) = base
  THEN Some([dir |-> SubSeq(path.dir, Len(base) + 1, Len(path.dir)), name |-> path.name])
  ELSE [some |-> FALSE, val |-> [dir |-> <<>>, name |-> OsStr(<<>>)]]

\* the file name alone put into the directory
JoinFileName(dir, rel) == [dir |-> dir, name |-> rel.name]

\* Path::join with a relative path
Join(dir, rel) == [dir |-> dir \o rel.dir, name |-> rel.name]

\* ------------------------------------------------------------ std::fs
\* The file system is fs, a function from the paths of the existing files to
\* their contents (named by the path the content was first seen at), and dirs,
\* the set of existing directories.
Prefixes(dir) == {SubSeq(dir, 1, k) : k \in 1..Len(dir)}
RemoveFile(f, path) == [q \in (DOMAIN f) \ {path} |-> f[q]]
\* the file left at the old path as well
RenameKeepingSource(f, from, to) ==
  [q \in (DOMAIN f) \cup {to} |-> IF q = to THEN f[from] ELSE f[q]]
Rename(f, from, to) ==
  [q \in ((DOMAIN f) \ {from}) \cup {to} |-> IF q = to THEN f[from] ELSE f[q]]
CopyFile(f, from, to) == [q \in (DOMAIN f) \cup {to} |-> IF q = to THEN f[from] ELSE f[q]]
FsCall(call, src, dest, ok) == [call |-> call, src |-> src, dest |-> dest, ok |-> ok]

\* ------------------------------------------------------------ action.rs
\* MoveOrCopy::move_or_copy: every result the call can have on file system
\* (f, d): [ok, fs, dirs, calls].  create_dir_all and the transfer can each fail
\* with an I/O error; the transfer can succeed only when the source exists.
move_or_copy(op, from, to, f, d) ==
  LET parent == Parent(to)
      call == IF op = "Move" THEN "rename" ELSE "copy"
      mk(ok) == FsCall("create_dir_all", from, to, ok)
  IN  IF ~parent.some
      THEN {[ok |-> FALSE, fs |-> f, dirs |-> d, calls |-> <<>>]}
      ELSE {[ok |-> FALSE, fs |-> f, dirs |-> d, calls |-> <<mk(FALSE)>>],
            [ok |-> FALSE, fs |-> f, dirs |-> d \cup Prefixes(parent.val),
             calls |-> <<mk(TRUE), FsCall(call, from, to, FALSE)>>]}
           \cup (IF from \in DOMAIN f
                 THEN {[ok |-> TRUE,
                        fs |-> IF op = "Move" THEN Rename(f, from, to) ELSE CopyFile(f, from, to),
                        dirs |-> d \cup Prefixes(parent.val),
                        calls |-> <<mk(TRUE), FsCall(call, from, to, TRUE)>>]}
                 ELSE {})

\* ------------------------------------------------------------ inputs
NoPath == [dir |-> <<>>, name |-> OsStr(<<>>)]
\* the selected directory, canonical
Root == <<"r">>
\* the canonical paths a scan of Root can return: files of the tree, and the
\* target outside the tree of a link that lies inside it
Catalog ==
  { [dir |-> <<"r">>, name |-> OsStr(<<"a", "1", ".", "j">>)],
    [dir |-> <<"r", "s">>, name |-> OsStr(<<"a", "2", ".", "J">>)],
    [dir |-> <<"o">>, name |-> OsStr(<<"a", "1", ".", "j">>)],
    [dir |-> <<"r">>, name |-> OsStr(<<"a", "2", ".", "t">>)] }
\* the scans: the lists of distinct catalogue paths, in any order
Scans == {s \in SeqsUpTo(Catalog, MaxFiles) : \A i, j \in 1..Len(s) : i # j => s[i] # s[j]}
\* the numbers a keep list can hold
KeepNums == {1, 2}
KeepLists == SeqsUpTo(KeepNums, MaxKeep)
\* the configurations: extensions and formats as loaded
Configs ==
  { [extensions |-> << <<"j">> >>, formats |-> <<DefaultFormat>>],
    [extensions |-> << <<"j">>, <<"t">> >>, formats |-> <<DefaultFormat>>],
    [extensions |-> <<>>, formats |-> <<DefaultFormat>>] }
\* the directories given to -c and -m: one outside the tree, one inside it
DestDirs == {<<"out">>, <<"r", "s">>}
OptDirs(D) == {NoneDir} \cup {Some(d) : d \in D}
\* the arguments clap accepts: -c, -m and -d conflict with one another
ParsedArgs ==
  {a \in [copy_to : OptDirs(DestDirs), move_to : OptDirs(DestDirs), delete : BOOLEAN,
          dry_run : BOOLEAN, verbose : BOOLEAN] :
     /\ ~(a.copy_to.some /\ a.move_to.some)
     /\ ~(a.copy_to.some /\ a.delete)
     /\ ~(a.move_to.some /\ a.delete)}
NoAction == [kind |-> "none", op |-> "-", dir |-> <<>>]

\* ------------------------------------------------------------ output
CountLine(text, n, m) == [text |-> text, src |-> NoPath, dest |-> NoPath, n |-> n, m |-> m]
PathLine(text, src, dest) == [text |-> text, src |-> src, dest |-> dest, n |-> 0, m |-> 0]
\* println!("Deleted: {}", file.display())
DeletedLine(file) == PathLine("Deleted", file, NoPath)
\* println!("{} \"{}\" from to \"{}\"", op.description(), src, dest)
TransferLine(op, src, dest) == PathLine(description(op), src, dest)
\* eprintln!("Error: {}", e)
ErrorLine == CountLine("Error", 0, 0)
\* eprintln!("{} errors occurred", errors)
SummaryLine(n) == CountLine("errors occurred", n, 0)

\* ------------------------------------------------------------ state
VARIABLES
  pc,              \* where main is
  args,            \* the parsed command line
  config,          \* the loaded ConfigFile
  keep,            \* the loaded KeepFile lines
  tree,            \* what a scan of Root returns
  action,          \* the resolved Action
  matching_files,  \* the file source of main
  pos,             \* the 1-based position of the handler's loop in its iterator
  errors,          \* the handler's error counter
  out,             \* standard output, line by line
  err,             \* standard error, line by line
  fs,              \* the existing files
  dirs,            \* the existing directories
  calls,           \* the std::fs calls made so far, with their outcome
  kpath,           \* the path a matcher is applied to
  knum,            \* the number matches_number is applied with
  mres,            \* the result of matches_number
  ires,            \* the result of the inclusion matcher
  eres,            \* the result of the exclusion matcher
  ext_res,         \* the result of ConfigFile::has_extension
  fmt_res,         \* the result of ConfigFile::has_format
  match_res,       \* the result of ConfigFile::matches
  filter_res,      \* the result of the closure of ConfigFile::into_filter
  iterated,        \* what the latest iter() of the file source yielded
  previous,        \* what the iter() before it yielded
  counted,         \* what the latest count() returned
  keepfile,        \* the lines of the keep file on disk
  loaded,          \* the result of KeepFile::try_load
  disk,            \* the directory entries on disk
  stack,           \* the work stack of read_recursive_path
  found,           \* the files read_recursive_path has collected
  dropped,         \* the directory entries whose read failed
  env              \* what main finds outside: the directory, the configuration sources, the keep file

vars == <<pc, args, config, keep, tree, action, matching_files, pos, errors, out, err,
          fs, dirs, calls, kpath, knum, mres, ires, eres,
          ext_res, fmt_res, match_res, filter_res, iterated, previous, counted,
          keepfile, loaded, disk, stack, found, dropped, env>>
runVars == <<args, config, tree, action, matching_files, pos, errors, out, err, fs, dirs, calls>>
keepVars == <<kpath, knum, mres, ires, eres>>
cfgVars == <<ext_res, fmt_res, match_res, filter_res>>
srcVars == <<iterated, previous, counted>>
loadVars == <<keepfile, loaded>>
walkVars == <<disk, stack, found, dropped>>
mainVars == <<env>>
unitVars == <<cfgVars, srcVars, loadVars, walkVars, mainVars>>

NoArgs == [copy_to |-> NoneDir, move_to |-> NoneDir, delete |-> FALSE,
           dry_run |-> FALSE, verbose |-> FALSE]
NoConfig == [extensions |-> <<>>, formats |-> <<>>]
InitFs(scan) == [p \in Range(scan) |-> p]
InitDirs(scan) == UNION {Prefixes(p.dir) : p \in Range(scan)} \cup {Root}

\* the values of the variables a specification does not use
NoIter == [some |-> FALSE, val |-> <<>>]
NotLoaded == [kind |-> "none", lines |-> <<>>, invalid |-> <<>>]
KeepIdle == kpath = NoPath /\ knum = 0 /\ mres = FALSE /\ ires = FALSE /\ eres = FALSE
CfgIdle == ext_res = FALSE /\ fmt_res = FALSE /\ match_res = FALSE /\ filter_res = FALSE
SrcIdle == iterated = NoIter /\ previous = NoIter /\ counted = NoneNum
LoadIdle == keepfile = <<>> /\ loaded = NotLoaded
WalkIdle == disk = <<>> /\ stack = <<>> /\ found = <<>> /\ dropped = {}
NoEnv == [dir_ok |-> FALSE, canon_ok |-> FALSE, loads |-> {}, keep_opened |-> FALSE]
MainIdle == env = NoEnv

Init ==
  /\ pc = "start"
  /\ args \in ParsedArgs
  /\ config \in Configs
  /\ keep \in KeepLists
  /\ tree \in Scans
  /\ action = NoAction
  /\ matching_files = SelectedFiles(Root, <<>>)
  /\ pos = 0
  /\ errors = 0
  /\ out = <<>>
  /\ err = <<>>
  /\ fs = InitFs(tree)
  /\ dirs = InitDirs(tree)
  /\ calls = <<>>
  /\ KeepIdle /\ CfgIdle /\ SrcIdle /\ LoadIdle /\ WalkIdle /\ MainIdle

\* ------------------------------------------------------------ main.rs
\* AppConfig::try_from: the action is resolved from the three action arguments
ParseArgs ==
  /\ pc = "start"
  /\ action' = ActionNew(args.copy_to, args.move_to, args.delete)
  /\ pc' = "configured"
  /\ UNCHANGED <<args, config, keep, tree, matching_files, pos, errors, out, err, fs, dirs, calls>>
  /\ UNCHANGED <<keepVars, unitVars>>

\* SelectedFiles::try_from(config.path)
Scan ==
  /\ pc = "configured"
  /\ matching_files' = SelectedFiles(Root, tree)
  /\ pc' = "scanned"
  /\ UNCHANGED <<args, config, keep, tree, action, pos, errors, out, err, fs, dirs, calls>>
  /\ UNCHANGED <<keepVars, unitVars>>

\* files.filter_by(config.config_file.into_filter()), then the first report
Stage1 ==
  /\ pc = "scanned"
  /\ LET filtered == filter_by(matching_files, ConfigMatcher(config))
     IN  /\ matching_files' = filtered
         /\ out' = IF args.verbose
                   THEN Append(out, CountLine("Matching files", Count(filtered),
                                              Count(SourceOf(filtered))))
                   ELSE out
  /\ pc' = "stage1"
  /\ UNCHANGED <<args, config, keep, tree, action, pos, errors, err, fs, dirs, calls>>
  /\ UNCHANGED <<keepVars, unitVars>>

\* both actions given the inclusion matcher
KeepMatcherAlwaysInclusion(act, lines) == InclusionMatcher(lines)

\* the matcher main chooses for the action
KeepMatcher(act, lines) ==
  IF act.kind = "Delete" THEN ExclusionMatcher(lines) ELSE InclusionMatcher(lines)

\* the second report put in front of the first
Stage2ReportFirst ==
  /\ pc = "stage1"
  /\ LET filtered == filter_by(matching_files, KeepMatcher(action, keep))
         matching_count == Count(SourceOf(filtered))
         kept_count == IF action.kind = "Delete"
                       THEN matching_count - Count(filtered)
                       ELSE Count(filtered)
     IN  /\ matching_files' = filtered
         /\ out' = IF args.verbose
                   THEN <<CountLine("Keeping files", kept_count, matching_count)>> \o out
                   ELSE out
  /\ pc' = "stage2"
  /\ UNCHANGED <<args, config, keep, tree, action, pos, errors, err, fs, dirs, calls>>
  /\ UNCHANGED <<keepVars, unitVars>>

\* the survivors reported as kept for every action
Stage2CountSurvivors ==
  /\ pc = "stage1"
  /\ LET filtered == filter_by(matching_files, KeepMatcher(action, keep))
         matching_count == Count(SourceOf(filtered))
         kept_count == Count(filtered)
     IN  /\ matching_files' = filtered
         /\ out' = IF args.verbose
                   THEN Append(out, CountLine("Keeping files", kept_count, matching_count))
                   ELSE out
  /\ pc' = "stage2"
  /\ UNCHANGED <<args, config, keep, tree, action, pos, errors, err, fs, dirs, calls>>
  /\ UNCHANGED <<keepVars, unitVars>>

\* matching_files.filter_by(the keep-list matcher), then the second report
Stage2 ==
  /\ pc = "stage1"
  /\ LET filtered == filter_by(matching_files, KeepMatcher(action, keep))
         matching_count == Count(SourceOf(filtered))
         kept_count == IF action.kind = "Delete"
                       THEN matching_count - Count(filtered)
                       ELSE Count(filtered)
     IN  /\ matching_files' = filtered
         /\ out' = IF args.verbose
                   THEN Append(out, CountLine("Keeping files", kept_count, matching_count))
                   ELSE out
  /\ pc' = "stage2"
  /\ UNCHANGED <<args, config, keep, tree, action, pos, errors, err, fs, dirs, calls>>
  /\ UNCHANGED <<keepVars, unitVars>>

\* match config.action: the handler is entered, its counter at 0
Dispatch ==
  /\ pc = "stage2"
  /\ pc' = IF action.kind = "Delete" THEN "handle_delete" ELSE "handle_move_or_copy"
  /\ errors' = 0
  /\ pos' = 1
  /\ UNCHANGED <<args, config, keep, tree, action, matching_files, out, err, fs, dirs, calls>>
  /\ UNCHANGED <<keepVars, unitVars>>

\* the flag never set
DryRunIgnored(options) == FALSE

\* ExecutionOptions::dry_run, as the handlers read it
DryRun(options) == options.dry_run

\* the listing taken from the source of the filtered view
DeletedLinesOfSource(fsrc) ==
  [i \in 1..Count(SourceOf(fsrc)) |-> DeletedLine(Iter(SourceOf(fsrc))[i])]

\* the listing of the dry-run branch of handle_delete
DeletedLines(fsrc) == [i \in 1..Count(fsrc) |-> DeletedLine(Iter(fsrc)[i])]

\* handle_delete, options.dry_run: the listing when verbose, then return
HandleDeleteDryRun ==
  /\ pc = "handle_delete"
  /\ DryRun(args)
  /\ out' = IF args.verbose THEN out \o DeletedLines(matching_files) ELSE out
  /\ pc' = "done"
  /\ UNCHANGED <<args, config, keep, tree, action, matching_files, pos, errors, err, fs, dirs, calls>>
  /\ UNCHANGED <<keepVars, unitVars>>

\* the loop left at the first error
HandleDeleteStepReturnOnError ==
  /\ pc = "handle_delete"
  /\ ~DryRun(args)
  /\ pos <= Count(matching_files)
  /\ LET file == Iter(matching_files)[pos]
     IN  \E ok \in BOOLEAN :
           /\ ok => file \in DOMAIN fs
           /\ fs' = IF ok THEN RemoveFile(fs, file) ELSE fs
           /\ calls' = Append(calls, FsCall("remove_file", file, NoPath, ok))
           /\ err' = IF ok THEN err ELSE Append(err, ErrorLine)
           /\ errors' = IF ok THEN errors ELSE errors + 1
           /\ out' = IF args.verbose /\ ok THEN Append(out, DeletedLine(file)) ELSE out
           /\ pc' = IF ok THEN pc ELSE "done"
  /\ pos' = pos + 1
  /\ UNCHANGED <<args, config, keep, tree, action, matching_files, dirs>>
  /\ UNCHANGED <<keepVars, unitVars>>

\* handle_delete: one turn of the loop
HandleDeleteStep ==
  /\ pc = "handle_delete"
  /\ ~DryRun(args)
  /\ pos <= Count(matching_files)
  /\ LET file == Iter(matching_files)[pos]
     IN  \E ok \in BOOLEAN :
           /\ ok => file \in DOMAIN fs
           /\ fs' = IF ok THEN RemoveFile(fs, file) ELSE fs
           /\ calls' = Append(calls, FsCall("remove_file", file, NoPath, ok))
           /\ err' = IF ok THEN err ELSE Append(err, ErrorLine)
           /\ errors' = IF ok THEN errors ELSE errors + 1
           /\ out' = IF args.verbose THEN Append(out, DeletedLine(file)) ELSE out
  /\ pos' = pos + 1
  /\ UNCHANGED <<pc, args, config, keep, tree, action, matching_files, dirs>>
  /\ UNCHANGED <<keepVars, unitVars>>

\* handle_delete: after the loop
HandleDeleteEnd ==
  /\ pc = "handle_delete"
  /\ ~DryRun(args)
  /\ pos > Count(matching_files)
  /\ err' = IF errors > 0 THEN Append(err, SummaryLine(errors)) ELSE err
  /\ pc' = "done"
  /\ UNCHANGED <<args, config, keep, tree, action, matching_files, pos, errors, out, fs, dirs, calls>>
  /\ UNCHANGED <<keepVars, unitVars>>

\* the loop not advancing past a path whose prefix cannot be stripped
HandleMoveOrCopyStepStuckOnSkip ==
  /\ pc = "handle_move_or_copy"
  /\ pos <= Count(matching_files)
  /\ LET src == Iter(matching_files)[pos]
         src_dir == Dir(matching_files)
         rel == StripPrefix(src, src_dir)
     IN  IF ~rel.some
         THEN UNCHANGED <<pos, errors, out, err, fs, dirs, calls>>
         ELSE LET dest == Join(action.dir, rel.val)
                  line == IF args.verbose
                          THEN Append(out, TransferLine(action.op, src, dest))
                          ELSE out
              IN  /\ pos' = pos + 1
                  /\ IF DryRun(args)
                     THEN /\ out' = line
                          /\ UNCHANGED <<errors, err, fs, dirs, calls>>
                     ELSE \E r \in move_or_copy(action.op, src, dest, fs, dirs) :
                            /\ fs' = r.fs
                            /\ dirs' = r.dirs
                            /\ calls' = calls \o r.calls
                            /\ err' = IF r.ok THEN err ELSE Append(err, ErrorLine)
                            /\ errors' = IF r.ok THEN errors ELSE errors + 1
                            /\ out' = line
  /\ UNCHANGED <<pc, args, config, keep, tree, action, matching_files>>
  /\ UNCHANGED <<keepVars, unitVars>>

\* handle_move_or_copy: one turn of the loop
HandleMoveOrCopyStep ==
  /\ pc = "handle_move_or_copy"
  /\ pos <= Count(matching_files)
  /\ LET src == Iter(matching_files)[pos]
         src_dir == Dir(matching_files)
         rel == StripPrefix(src, src_dir)
     IN  IF ~rel.some
         THEN \* let .. else continue
              UNCHANGED <<errors, out, err, fs, dirs, calls>>
         ELSE LET dest == Join(action.dir, rel.val)
                  line == IF args.verbose
                          THEN Append(out, TransferLine(action.op, src, dest))
                          ELSE out
              IN  IF DryRun(args)
                  THEN /\ out' = line
                       /\ UNCHANGED <<errors, err, fs, dirs, calls>>
                  ELSE \E r \in move_or_copy(action.op, src, dest, fs, dirs) :
                         /\ fs' = r.fs
                         /\ dirs' = r.dirs
                         /\ calls' = calls \o r.calls
                         /\ err' = IF r.ok THEN err ELSE Append(err, ErrorLine)
                         /\ errors' = IF r.ok THEN errors ELSE errors + 1
                         /\ out' = line
  /\ pos' = pos + 1
  /\ UNCHANGED <<pc, args, config, keep, tree, action, matching_files>>
  /\ UNCHANGED <<keepVars, unitVars>>

\* handle_move_or_copy: after the loop
HandleMoveOrCopyEnd ==
  /\ pc = "handle_move_or_copy"
  /\ pos > Count(matching_files)
  /\ err' = IF errors > 0 THEN Append(err, SummaryLine(errors)) ELSE err
  /\ pc' = "done"
  /\ UNCHANGED <<args, config, keep, tree, action, matching_files, pos, errors, out, fs, dirs, calls>>
  /\ UNCHANGED <<keepVars, unitVars>>

Next ==
  \/ ParseArgs
  \/ Scan
  \/ Stage1
  \/ Stage2
  \/ Dispatch
  \/ HandleDeleteDryRun
  \/ HandleDeleteStep
  \/ HandleDeleteEnd
  \/ HandleMoveOrCopyStep
  \/ HandleMoveOrCopyEnd

Spec == Init /\ [][Next]_vars

\* ------------------------------------------------------------ Action::new alone
\* every combination of the three action arguments, the illegal ones included
ArgDirs == {<<"out">>, <<"r", "s">>, <<"selected">>, <<"x">>, <<"y">>}
AnyArgs ==
  [copy_to : OptDirs(ArgDirs), move_to : OptDirs(ArgDirs), delete : BOOLEAN,
   dry_run : {FALSE}, verbose : {FALSE}]

InitAction ==
  /\ pc = "action_args"
  /\ args \in AnyArgs
  /\ config = NoConfig
  /\ keep = <<>>
  /\ tree = <<>>
  /\ action = NoAction
  /\ matching_files = SelectedFiles(Root, <<>>)
  /\ pos = 0
  /\ errors = 0
  /\ out = <<>>
  /\ err = <<>>
  /\ fs = InitFs(<<>>)
  /\ dirs = {Root}
  /\ calls = <<>>
  /\ KeepIdle /\ CfgIdle /\ SrcIdle /\ LoadIdle /\ WalkIdle /\ MainIdle

\* Action::new(copy_to, move_to, delete)
CallActionNew ==
  /\ pc = "action_args"
  /\ action' = ActionNew(args.copy_to, args.move_to, args.delete)
  /\ pc' = "action_new"
  /\ UNCHANGED <<args, config, keep, tree, matching_files, pos, errors, out, err, fs, dirs, calls>>
  /\ UNCHANGED <<keepVars, unitVars>>

NextAction == CallActionNew

SpecAction == InitAction /\ [][NextAction]_vars

\* ------------------------------------------------------------ the keep-list matchers alone
\* the characters of the enumerated file names
KeepAlphabet == {"a", "0", "1", "2", "U3"}
\* the numbers matches_number is asked about
Nums == {0, 1, 2, 12}
KeepPaths ==
  {[dir |-> Root, name |-> [utf8 |-> u, chars |-> c]] :
     u \in BOOLEAN, c \in SeqsUpTo(KeepAlphabet, MaxNameLen)}

InitKeep ==
  /\ pc = "keep_path"
  /\ kpath \in KeepPaths
  /\ knum = 0 /\ mres = FALSE /\ ires = FALSE /\ eres = FALSE
  /\ CfgIdle /\ SrcIdle /\ LoadIdle /\ WalkIdle /\ MainIdle
  /\ args = NoArgs
  /\ config = NoConfig
  /\ keep = <<>>
  /\ tree = <<>>
  /\ action = NoAction
  /\ matching_files = SelectedFiles(Root, <<>>)
  /\ pos = 0
  /\ errors = 0
  /\ out = <<>>
  /\ err = <<>>
  /\ fs = InitFs(<<>>)
  /\ dirs = {Root}
  /\ calls = <<>>

\* KeepFile::matches_number(filename, num), filename a &str
CallMatchesNumber ==
  /\ pc = "keep_path"
  /\ kpath.name.utf8
  /\ \E num \in Nums :
       /\ knum' = num
       /\ mres' = matches_number(kpath.name.chars, num)
  /\ pc' = "matches_number"
  /\ UNCHANGED <<kpath, ires, eres, keep>>
  /\ UNCHANGED <<runVars, unitVars>>

\* the inclusion matcher of a keep list, called on the path
CallInclusionMatcher ==
  /\ pc = "keep_path"
  /\ \E lines \in KeepLists :
       /\ keep' = lines
       /\ ires' = Call(InclusionMatcher(lines), kpath)
  /\ pc' = "inclusion"
  /\ UNCHANGED <<kpath, knum, mres, eres>>
  /\ UNCHANGED <<runVars, unitVars>>

\* the exclusion matcher of the same keep list, called on the same path
CallExclusionMatcher ==
  /\ pc = "inclusion"
  /\ eres' = Call(ExclusionMatcher(keep), kpath)
  /\ pc' = "exclusion"
  /\ UNCHANGED <<kpath, knum, mres, ires, keep>>
  /\ UNCHANGED <<runVars, unitVars>>

NextKeep ==
  \/ CallMatchesNumber
  \/ CallInclusionMatcher
  \/ CallExclusionMatcher

SpecKeep == InitKeep /\ [][NextKeep]_vars

\* ------------------------------------------------------------ the configuration filter alone
\* the characters of the enumerated file names
ConfigAlphabet == {"a", "1", ".", "j", "J"}
\* the directories of the enumerated paths; the second has a digit in a
\* component
ConfigDirs == {<<"r">>, <<"r", "1">>}
\* one character more than the keep-list names, for a name to hold a stem with a
\* number, a '.' and an extension
ConfigPaths ==
  {[dir |-> d, name |-> [utf8 |-> u, chars |-> c]] :
     d \in ConfigDirs, u \in BOOLEAN, c \in SeqsUpTo(ConfigAlphabet, MaxNameLen + 1)}
\* the configurations a file can hold: any list of extensions, any list of formats
ConfigFiles ==
  [extensions : {<<>>, << <<"j">> >>, << <<"a">>, <<"j">> >>},
   formats : {<<>>, <<DefaultFormat>>, <<PrefixFormat, DefaultFormat>>}]

InitConfig ==
  /\ pc = "config_path"
  /\ kpath \in ConfigPaths
  /\ config \in ConfigFiles
  /\ knum = 0 /\ mres = FALSE /\ ires = FALSE /\ eres = FALSE
  /\ CfgIdle /\ SrcIdle /\ LoadIdle /\ WalkIdle /\ MainIdle
  /\ args = NoArgs
  /\ keep = <<>>
  /\ tree = <<>>
  /\ action = NoAction
  /\ matching_files = SelectedFiles(Root, <<>>)
  /\ pos = 0
  /\ errors = 0
  /\ out = <<>>
  /\ err = <<>>
  /\ fs = InitFs(<<>>)
  /\ dirs = {Root}
  /\ calls = <<>>

\* config.has_extension(path)
CallHasExtension ==
  /\ pc = "config_path"
  /\ ext_res' = has_extension(config, kpath)
  /\ pc' = "has_extension"
  /\ UNCHANGED <<fmt_res, match_res, filter_res>>
  /\ UNCHANGED <<runVars, keep, keepVars, srcVars, loadVars, walkVars, mainVars>>

\* config.has_format(path)
CallHasFormat ==
  /\ pc = "has_extension"
  /\ fmt_res' = has_format(config, kpath)
  /\ pc' = "has_format"
  /\ UNCHANGED <<ext_res, match_res, filter_res>>
  /\ UNCHANGED <<runVars, keep, keepVars, srcVars, loadVars, walkVars, mainVars>>

\* config.matches(path)
CallMatches ==
  /\ pc = "has_format"
  /\ match_res' = matches(config, kpath)
  /\ pc' = "matches"
  /\ UNCHANGED <<ext_res, fmt_res, filter_res>>
  /\ UNCHANGED <<runVars, keep, keepVars, srcVars, loadVars, walkVars, mainVars>>

\* config.into_filter(), the closure called on the path
CallIntoFilter ==
  /\ pc = "matches"
  /\ filter_res' = Call(ConfigMatcher(config), kpath)
  /\ pc' = "into_filter"
  /\ UNCHANGED <<ext_res, fmt_res, match_res>>
  /\ UNCHANGED <<runVars, keep, keepVars, srcVars, loadVars, walkVars, mainVars>>

NextConfig ==
  \/ CallHasExtension
  \/ CallHasFormat
  \/ CallMatches
  \/ CallIntoFilter

SpecConfig == InitConfig /\ [][NextConfig]_vars

\* ------------------------------------------------------------ the file source alone
\* the lists a SelectedFiles can hold: any paths, repeated or not
SourceLists == SeqsUpTo(Catalog, MaxFiles)
\* the closures given to filter_by, by the paths they accept
Predicates == {FnMatcher(S) : S \in {T \in SUBSET Catalog : Cardinality(T) \in {1, 3}}}

InitSource ==
  /\ pc = "source"
  /\ tree \in SourceLists
  /\ matching_files = SelectedFiles(Root, tree)
  /\ KeepIdle /\ CfgIdle /\ SrcIdle /\ LoadIdle /\ WalkIdle /\ MainIdle
  /\ args = NoArgs
  /\ config = NoConfig
  /\ keep = <<>>
  /\ action = NoAction
  /\ pos = 0
  /\ errors = 0
  /\ out = <<>>
  /\ err = <<>>
  /\ fs = InitFs(<<>>)
  /\ dirs = {Root}
  /\ calls = <<>>

\* source.filter_by(filter): the source moves into the new FilteredFiles
SourceFilterBy ==
  /\ pc = "source"
  /\ Len(matching_files.matchers) < MaxChain
  /\ \E filter \in Predicates : matching_files' = filter_by(matching_files, filter)
  /\ iterated' = NoIter /\ previous' = NoIter /\ counted' = NoneNum
  /\ UNCHANGED <<pc, args, config, keep, tree, action, pos, errors, out, err, fs, dirs, calls>>
  /\ UNCHANGED <<keepVars, cfgVars, loadVars, walkVars, mainVars>>

\* an iter() that takes the paths out of the list
SourceIterDraining ==
  /\ pc = "source"
  /\ iterated' = Some(Iter(matching_files))
  /\ previous' = iterated
  /\ matching_files' = [matching_files EXCEPT !.files = <<>>]
  /\ UNCHANGED <<pc, args, config, keep, tree, action, pos, errors, out, err, fs, dirs, calls>>
  /\ UNCHANGED <<counted, keepVars, cfgVars, loadVars, walkVars, mainVars>>

\* source.iter(), run to its end: &self, the source is only read
SourceIter ==
  /\ pc = "source"
  /\ iterated' = Some(Iter(matching_files))
  /\ previous' = iterated
  /\ UNCHANGED <<pc, args, config, keep, tree, action, matching_files, pos, errors, out, err,
                 fs, dirs, calls>>
  /\ UNCHANGED <<counted, keepVars, cfgVars, loadVars, walkVars, mainVars>>

\* source.count()
SourceCount ==
  /\ pc = "source"
  /\ counted' = Some(Count(matching_files))
  /\ UNCHANGED <<pc, args, config, keep, tree, action, matching_files, pos, errors, out, err,
                 fs, dirs, calls>>
  /\ UNCHANGED <<iterated, previous, keepVars, cfgVars, loadVars, walkVars, mainVars>>

NextSource ==
  \/ SourceFilterBy
  \/ SourceIter
  \/ SourceCount

SpecSource == InitSource /\ [][NextSource]_vars

\* ------------------------------------------------------------ keep-file loading alone
\* the characters of the enumerated lines
LineAlphabet == {"1", "+", "a"}
\* the lines: every text up to MaxLineLen, the empty line included, and a line
\* that is not valid UTF-8
FileLines ==
  {[utf8 |-> TRUE, chars |-> c] : c \in SeqsUpTo(LineAlphabet, MaxLineLen)}
    \cup {[utf8 |-> FALSE, chars |-> <<"1">>]}
KeepFiles == SeqsUpTo(FileLines, MaxKeep)

InitLoad ==
  /\ pc = "keep_file"
  /\ keepfile \in KeepFiles
  /\ loaded = NotLoaded
  /\ KeepIdle /\ CfgIdle /\ SrcIdle /\ WalkIdle /\ MainIdle
  /\ args = NoArgs
  /\ config = NoConfig
  /\ keep = <<>>
  /\ tree = <<>>
  /\ action = NoAction
  /\ matching_files = SelectedFiles(Root, <<>>)
  /\ pos = 0
  /\ errors = 0
  /\ out = <<>>
  /\ err = <<>>
  /\ fs = InitFs(<<>>)
  /\ dirs = {Root}
  /\ calls = <<>>

\* KeepFile::try_load(path): File::open succeeds or fails
CallTryLoad ==
  /\ pc = "keep_file"
  /\ \E opened \in BOOLEAN : loaded' = try_load(opened, keepfile)
  /\ keep' = loaded'.lines
  /\ pc' = "try_load"
  /\ UNCHANGED <<keepfile, runVars, keepVars, cfgVars, srcVars, walkVars, mainVars>>

NextLoad == CallTryLoad

SpecLoad == InitLoad /\ [][NextLoad]_vars

\* ------------------------------------------------------------ lib.rs, the traversal alone
\* In the traversal a path is the tuple of its components from "/".  The disk
\* maps the path of every existing entry to [kind, target]: kind is "file",
\* "dir" or "link", target the path a link points to.
Node(kind, target) == [kind |-> kind, target |-> target]
OutsideDir == <<"o">>
OutsideFile == <<"o", "a1.j">>
FileA == <<"r", "a1.j">>
SubDir == <<"r", "s">>
FileB == <<"r", "s", "a2.J">>
LinkL == <<"r", "l">>
LinkK == <<"r", "s", "k">>
Absent == <<>>

\* the disk with the chosen entries under Root; l and k are the targets of the
\* two links, Absent for no link
MkDisk(a, sub, b, l, k) ==
  LET present == {Root, OutsideDir, OutsideFile}
                   \cup (IF a THEN {FileA} ELSE {})
                   \cup (IF sub THEN {SubDir} ELSE {})
                   \cup (IF sub /\ b THEN {FileB} ELSE {})
                   \cup (IF l # Absent THEN {LinkL} ELSE {})
                   \cup (IF sub /\ k # Absent THEN {LinkK} ELSE {})
  IN  [p \in present |->
         CASE p = LinkL -> Node("link", l)
           [] p = LinkK -> Node("link", k)
           [] p \in {Root, OutsideDir, SubDir} -> Node("dir", Absent)
           [] OTHER -> Node("file", Absent)]

\* the trees: finite, every link pointing to an existing file or directory, no
\* link leading back to a directory above it
Disks ==
  {d \in {MkDisk(a, sub, b, l, k) :
            a \in BOOLEAN, sub \in BOOLEAN, b \in BOOLEAN,
            l \in {Absent, FileA, OutsideFile, SubDir, OutsideDir},
            k \in {Absent, FileA, OutsideFile}} :
     \A p \in DOMAIN d : d[p].kind = "link" => d[p].target \in DOMAIN d}

RECURSIVE Canonicalize(_, _)
\* fs::canonicalize: every link on the way replaced by what it points to
Canonicalize(d, path) ==
  IF path = <<>> THEN <<>>
  ELSE LET q == Append(Canonicalize(d, SubSeq(path, 1, Len(path) - 1)), Last(path))
       IN  IF q \in DOMAIN d /\ d[q].kind = "link" THEN Canonicalize(d, d[q].target) ELSE q

\* Path::is_dir, which follows links
IsDir(d, path) == d[Canonicalize(d, path)].kind = "dir"

\* the orders in which a set can be listed
Orders(S) ==
  {o \in SeqsUpTo(S, Cardinality(S)) : Len(o) = Cardinality(S) /\ Range(o) = S}

\* the entries of the directory, each under the path it was reached by
DirContents(d, path) ==
  LET real == Canonicalize(d, path)
      names == {Last(q) : q \in {e \in DOMAIN d :
                                   Len(e) = Len(real) + 1 /\ SubSeq(e, 1, Len(real)) = real}}
  IN  {Append(path, n) : n \in names}

\* Path::read_dir: the entries of the directory in any order
ReadDir(d, path) == Orders(DirContents(d, path))

\* flat_map(Result::ok): the entries whose read gave an error are passed over
FlatMapOk(entries, lost) == SelectSeq(entries, LAMBDA e : e \notin lost)

InitWalk ==
  /\ pc = "selected_directory"
  /\ disk \in Disks
  /\ stack = <<>>
  /\ found = <<>>
  /\ dropped = {}
  /\ KeepIdle /\ CfgIdle /\ SrcIdle /\ LoadIdle /\ MainIdle
  /\ args = NoArgs
  /\ config = NoConfig
  /\ keep = <<>>
  /\ tree = <<>>
  /\ action = NoAction
  /\ matching_files = SelectedFiles(Root, <<>>)
  /\ pos = 0
  /\ errors = 0
  /\ out = <<>>
  /\ err = <<>>
  /\ fs = InitFs(<<>>)
  /\ dirs = {Root}
  /\ calls = <<>>

\* read_recursive_path, up to the loop: the stack seeded with the entries of the
\* selected directory, or the I/O error of read_dir returned
WalkSeed ==
  /\ pc = "selected_directory"
  /\ \/ /\ \E entries \in ReadDir(disk, Root), lost \in SUBSET DirContents(disk, Root) :
              /\ stack' = FlatMapOk(entries, lost)
              /\ dropped' = dropped \cup lost
        /\ pc' = "walking"
     \/ /\ UNCHANGED <<stack, dropped>>
        /\ pc' = "walk_failed"
  /\ UNCHANGED <<disk, found, runVars, keep, keepVars, cfgVars, srcVars, loadVars, mainVars>>

\* one turn of the loop: the entry popped is a directory and its entries are
\* pushed, or it is canonicalized and recorded; either call can fail
WalkPop ==
  /\ pc = "walking"
  /\ stack # <<>>
  /\ LET entry == Last(stack)
         rest == SubSeq(stack, 1, Len(stack) - 1)
     IN  \/ /\ IsDir(disk, entry)
            /\ \E entries \in ReadDir(disk, entry), lost \in SUBSET DirContents(disk, entry) :
                 /\ stack' = rest \o FlatMapOk(entries, lost)
                 /\ dropped' = dropped \cup lost
            /\ UNCHANGED <<pc, found>>
         \/ /\ ~IsDir(disk, entry)
            /\ stack' = rest
            /\ found' = Append(found, Canonicalize(disk, entry))
            /\ UNCHANGED <<pc, dropped>>
         \/ /\ stack' = rest
            /\ pc' = "walk_failed"
            /\ UNCHANGED <<found, dropped>>
  /\ UNCHANGED <<disk, runVars, keep, keepVars, cfgVars, srcVars, loadVars, mainVars>>

\* the stack is empty: Ok(files)
WalkReturn ==
  /\ pc = "walking"
  /\ stack = <<>>
  /\ pc' = "walked"
  /\ UNCHANGED <<disk, stack, found, dropped, runVars, keep, keepVars, cfgVars, srcVars, loadVars,
                 mainVars>>

NextWalk ==
  \/ WalkSeed
  \/ WalkPop
  \/ WalkReturn

SpecWalk == InitWalk /\ [][NextWalk]_vars

\* ============================================================ the run from its arguments
\* SpecMain: main from the parsed arguments on: the configuration is assembled
\* (it can fail), printed when asked for, and the pipeline of Spec follows.
\* env is what the run finds outside: dir_ok, whether the path exists and is a
\* directory; canon_ok, whether it can be canonicalized; loads, the places
\* whose configuration document opens and deserializes; keep_opened, whether
\* the keep file opens.

\* the places a configuration document is looked for
ConfigPlaces == {"explicit", "local", "exe", "parent", "embedded"}
\* the document at a place, named after it
ConfigAt(place) ==
  [name |-> place, extensions |-> << <<"j">> >>, formats |-> <<DefaultFormat>>]
NoMainConfig == [name |-> "", extensions |-> <<>>, formats |-> <<>>]
\* the last resort of ConfigFile::default
HardcodedConfig == [name |-> "default_all", extensions |-> <<>>, formats |-> <<DefaultFormat>>]

\* ConfigFile::try_load
ConfigTryLoad(place, loads) ==
  IF place \in loads THEN Some(ConfigAt(place)) ELSE [some |-> FALSE, val |-> NoMainConfig]

\* ConfigFile::default: next to the executable, in its parent directory, the
\* embedded document, the hardcoded configuration
ConfigDefault(loads) ==
  IF ConfigTryLoad("exe", loads).some THEN ConfigTryLoad("exe", loads).val
  ELSE IF ConfigTryLoad("parent", loads).some THEN ConfigTryLoad("parent", loads).val
  ELSE IF "embedded" \in loads THEN ConfigAt("embedded")
  ELSE HardcodedConfig

\* ConfigFile::load: try_load(path).unwrap_or_default()
ConfigLoad(place, loads) ==
  IF ConfigTryLoad(place, loads).some THEN ConfigTryLoad(place, loads).val
  ELSE ConfigDefault(loads)

\* the explicit path handed to load as well
ResolveConfigAlwaysFallingBack(explicit, loads) ==
  Some(ConfigLoad(IF explicit.some THEN "explicit" ELSE "local", loads))

\* AppConfig::try_from, the match on the --config argument: the file given is
\* loaded with try_load and its error propagated by ?, without a file given
\* config.yaml of the selected directory is loaded with load
ResolveConfig(explicit, loads) ==
  IF explicit.some THEN ConfigTryLoad("explicit", loads)
  ELSE Some(ConfigLoad("local", loads))

\* the path canonicalized without the test that it is a directory
SelectPathUnfiltered(e) == IF ~e.canon_ok THEN "Io" ELSE ""

\* AppConfig::try_from, the path: filter(|p| p.exists() && p.is_dir()), else
\* the InvalidInput error, then SelectedDirectory::try_from which canonicalizes;
\* the error's text, "" for none
SelectPath(e) ==
  IF ~e.dir_ok THEN "Invalid directory"
  ELSE IF ~e.canon_ok THEN "Io"
  ELSE ""

\* the directories given to -c and -m here: one outside the tree, and the
\* selected directory itself
MainDests == {<<"out">>, Root}
\* the arguments; config is the --config option.  The -k option only names the
\* file try_load is given, which env.keep_opened and keepfile stand for.
MainArgs ==
  {a \in [copy_to : OptDirs(MainDests), move_to : OptDirs(MainDests), delete : BOOLEAN,
          dry_run : BOOLEAN, verbose : BOOLEAN, print_config : BOOLEAN,
          config : {NoneDir, Some(<<"c">>)}] :
     /\ ~(a.copy_to.some /\ a.move_to.some)
     /\ ~(a.copy_to.some /\ a.delete)
     /\ ~(a.move_to.some /\ a.delete)}
Envs == [dir_ok : BOOLEAN, canon_ok : BOOLEAN, loads : SUBSET ConfigPlaces, keep_opened : BOOLEAN]
\* the keep files: one valid, one with a line that is no number
MainKeepFiles == { <<OsStr(<<"1">>)>>, <<OsStr(<<"a">>)>> }
\* the scans: two files of the tree, or a path outside the tree and two files
\* of the tree with its number
MainScans ==
  { << [dir |-> <<"r">>, name |-> OsStr(<<"a", "1", ".", "j">>)],
       [dir |-> <<"r", "s">>, name |-> OsStr(<<"a", "2", ".", "J">>)] >>,
    << [dir |-> <<"o">>, name |-> OsStr(<<"a", "1", ".", "j">>)],
       [dir |-> <<"r">>, name |-> OsStr(<<"a", "1", ".", "j">>)],
       [dir |-> <<"r", "s">>, name |-> OsStr(<<"a", "1", ".", "J">>)] >> }

\* eprintln!("{e}") of a fatal error
FatalLine(text) == CountLine(text, 0, 0)
\* println!("{}", config.config_file)
ConfigLine(cfg) == CountLine(cfg.name, Len(cfg.extensions), Len(cfg.formats))

InitMain ==
  /\ pc = "main"
  /\ args \in MainArgs
  /\ env \in Envs
  /\ keepfile \in MainKeepFiles
  /\ tree \in MainScans
  /\ config = NoMainConfig
  /\ keep = <<>>
  /\ loaded = NotLoaded
  /\ action = NoAction
  /\ matching_files = SelectedFiles(Root, <<>>)
  /\ pos = 0
  /\ errors = 0
  /\ out = <<>>
  /\ err = <<>>
  /\ fs = InitFs(tree)
  /\ dirs = InitDirs(tree)
  /\ calls = <<>>
  /\ KeepIdle /\ CfgIdle /\ SrcIdle /\ WalkIdle

\* AppConfig::try_from(args) in main: the directory, the configuration, the
\* keep file, the action; the first error is printed and main returns
AppConfigTryFrom ==
  /\ pc = "main"
  /\ LET cfg == ResolveConfig(args.config, env.loads)
         keepfile_res == try_load(env.keep_opened, keepfile)
         failed == IF SelectPath(env) # "" THEN SelectPath(env)
                   ELSE IF ~cfg.some THEN "Config"
                   ELSE IF keepfile_res.kind # "KeepFile" THEN keepfile_res.kind
                   ELSE ""
     IN  IF failed # ""
         THEN /\ err' = Append(err, FatalLine(failed))
              /\ pc' = "done"
              /\ UNCHANGED <<config, keep, loaded, action>>
         ELSE /\ config' = cfg.val
              /\ loaded' = keepfile_res
              /\ keep' = keepfile_res.lines
              /\ action' = ActionNew(args.copy_to, args.move_to, args.delete)
              /\ pc' = "app_config"
              /\ UNCHANGED err
  /\ UNCHANGED <<args, tree, matching_files, pos, errors, out, fs, dirs, calls>>
  /\ UNCHANGED <<keepfile, env, keepVars, cfgVars, srcVars, walkVars>>

\* the configuration printed and the run continued
PrintConfigWithoutReturn ==
  /\ pc = "app_config"
  /\ out' = IF args.print_config THEN Append(out, ConfigLine(config)) ELSE out
  /\ pc' = "configured"
  /\ UNCHANGED <<args, config, keep, tree, action, matching_files, pos, errors, err, fs, dirs,
                 calls>>
  /\ UNCHANGED <<keepVars, unitVars>>

\* if config.options.print { return println!("{}", config.config_file); }
PrintConfig ==
  /\ pc = "app_config"
  /\ IF args.print_config
     THEN /\ out' = Append(out, ConfigLine(config))
          /\ pc' = "done"
     ELSE /\ out' = out
          /\ pc' = "configured"
  /\ UNCHANGED <<args, config, keep, tree, action, matching_files, pos, errors, err, fs, dirs,
                 calls>>
  /\ UNCHANGED <<keepVars, unitVars>>

\* SelectedFiles::try_from(config.path) returning an error: printed, main returns
ScanFailed ==
  /\ pc = "configured"
  /\ err' = Append(err, FatalLine("Io"))
  /\ pc' = "done"
  /\ UNCHANGED <<args, config, keep, tree, action, matching_files, pos, errors, out, fs, dirs,
                 calls>>
  /\ UNCHANGED <<keepVars, unitVars>>

NextMain ==
  \/ AppConfigTryFrom
  \/ PrintConfig
  \/ Scan
  \/ ScanFailed
  \/ Stage1
  \/ Stage2
  \/ Dispatch
  \/ HandleDeleteDryRun
  \/ HandleDeleteStep
  \/ HandleDeleteEnd
  \/ HandleMoveOrCopyStep
  \/ HandleMoveOrCopyEnd

SpecMain == InitMain /\ [][NextMain]_vars

\* the runs that have a file collection: the selected directory is there, the
\* keep file opens, and a configuration document is found at every place or
\* at none
InitFair ==
  /\ InitMain
  /\ env.dir_ok /\ env.canon_ok /\ env.keep_opened
  /\ env.loads \in {{}, ConfigPlaces}

\* the run as the one thread that executes it: a step that can be taken is
\* taken
FairMain == InitFair /\ [][NextMain]_vars /\ WF_vars(NextMain)

\* ============================================================ properties
\* ------------------------------------------------------------ what the run was given
\* the file name's number is on the keep list
Listed(p) == \E i \in 1..Len(keep) : matches_number(p.name.chars, keep[i])
\* the stage-1 matching files, in scan order
Stage1Files == SelectSeq(tree, LAMBDA p : matches(config, p))
\* the files the action is to touch, in scan order
Survivors ==
  SelectSeq(Stage1Files, LAMBDA p : IF action.kind = "Delete" THEN ~Listed(p) ELSE Listed(p))
UnderRoot(p) == Len(p.dir) >= Len(Root) /\ SubSeq(p.dir, 1, Len(Root)) = Root
\* the first std::fs call of each turn of a handler's loop
Attempts == SelectSeq(calls, LAMBDA c : c.call \in {"remove_file", "create_dir_all"})
AttemptedSeq == [i \in 1..Len(Attempts) |-> Attempts[i].src]
AttemptedPaths == Range(AttemptedSeq)
Untouched(p) == p \in DOMAIN fs /\ fs[p] = p
IsPrefixOf(s, t) == Len(s) <= Len(t) /\ SubSeq(t, 1, Len(s)) = s
InHandler == pc \in {"handle_delete", "handle_move_or_copy", "done"}

\* C1: Action::new is total and follows the priority copy_to, then move_to, then
\* delete, then Copy to "selected", for all 8 combinations of its arguments.
C1_ActionPriority ==
  pc = "action_new" =>
    /\ action.kind \in {"Delete", "MoveOrCopyTo"}
    /\ action =
         IF args.copy_to.some
         THEN [kind |-> "MoveOrCopyTo", op |-> "Copy", dir |-> args.copy_to.val]
         ELSE IF args.move_to.some
         THEN [kind |-> "MoveOrCopyTo", op |-> "Move", dir |-> args.move_to.val]
         ELSE IF args.delete
         THEN [kind |-> "Delete", op |-> "-", dir |-> <<>>]
         ELSE [kind |-> "MoveOrCopyTo", op |-> "Copy", dir |-> <<"selected">>]

\* all three arguments given with different directories: Copy to copy_to's
C1_Witness ==
  /\ pc = "action_new"
  /\ args.copy_to.some /\ args.move_to.some /\ args.delete
  /\ args.copy_to.val # args.move_to.val
  /\ action.op = "Copy" /\ action.dir = args.copy_to.val

\* C2: under Delete, not dry-run, the paths the executor attempts to remove are
\* exactly the stage-1 matching files whose number is on no keep-list entry; a
\* file on the keep list and a file failing the configuration are never removed.
C2_DeleteRemovesExactlyUnlisted ==
  (InHandler /\ action.kind = "Delete" /\ ~args.dry_run) =>
    LET target == {p \in Range(tree) : matches(config, p) /\ ~Listed(p)}
    IN  /\ AttemptedPaths \subseteq target
        /\ pc = "done" => AttemptedPaths = target
        /\ \A c \in Range(calls) : c.call = "remove_file"
        /\ \A p \in Range(tree) : (Listed(p) \/ ~matches(config, p)) => Untouched(p)

\* a finished Delete that removed a file and left a matching, listed file alone
C2_Witness ==
  /\ pc = "done" /\ action.kind = "Delete" /\ ~args.dry_run
  /\ \E c \in Range(calls) : c.call = "remove_file" /\ c.ok /\ c.src \notin DOMAIN fs
  /\ \E p \in Range(tree) : matches(config, p) /\ Listed(p) /\ Untouched(p)

\* C3: under Move or Copy, not dry-run, the paths a transfer is attempted for are
\* exactly the stage-1 matching files whose number is on the keep list, and every
\* other scanned file stays untouched at its path.
C3_TransfersExactlyListed ==
  (pc = "done" /\ action.kind = "MoveOrCopyTo" /\ ~args.dry_run) =>
    LET target == {p \in Range(tree) : matches(config, p) /\ Listed(p)}
    IN  /\ AttemptedPaths = target
        /\ \A p \in Range(tree) \ target : Untouched(p)

\* C4: with dry_run set nothing is removed, renamed, copied or created: the file
\* system stays as it was at the start, for every action and verbose setting.
C4_DryRunMutatesNothing ==
  args.dry_run => /\ fs = InitFs(tree)
                  /\ dirs = InitDirs(tree)
                  /\ calls = <<>>

\* a finished verbose dry run that listed a file it would have acted on
C4_Witness ==
  /\ pc = "done" /\ args.dry_run /\ args.verbose
  /\ Len(Survivors) > 0
  /\ \E i \in 1..Len(out) : out[i].src = Survivors[1]
  /\ fs = InitFs(tree)

\* the per-file lines of standard output: all but the two count reports
PerFileLines == SelectSeq(out, LAMBDA l : l.text \notin {"Matching files", "Keeping files"})
\* the listing as the inputs alone determine it, whatever dry_run is and however
\* the file system calls end
Listing ==
  IF action.kind = "Delete"
  THEN [i \in 1..Len(Survivors) |->
          [text |-> "Deleted", src |-> Survivors[i], dest |-> NoPath, n |-> 0, m |-> 0]]
  ELSE LET moved == SelectSeq(Survivors, UnderRoot)
       IN  [i \in 1..Len(moved) |->
              [text |-> IF action.op = "Move" THEN "moved" ELSE "copied",
               src |-> moved[i],
               dest |-> [dir |-> action.dir \o SubSeq(moved[i].dir, Len(Root) + 1, Len(moved[i].dir)),
                         name |-> moved[i].name],
               n |-> 0, m |-> 0]]

\* C5: with verbose set, a dry run and a real run over the same inputs print the
\* same per-file lines, in the same order: both print the listing the inputs
\* determine.
C5_SameListing ==
  (pc = "done" /\ args.verbose) => PerFileLines = Listing

\* a finished verbose dry run whose listing has two lines
C5_Witness ==
  /\ pc = "done" /\ args.verbose /\ args.dry_run
  /\ Len(PerFileLines) >= 2

\* the survivors a handler makes a file system call for
Targets == IF action.kind = "Delete" THEN Survivors ELSE SelectSeq(Survivors, UnderRoot)

\* the calls made are the first survivors, in order, and all of them at the end
AttemptsFollowTargets ==
  (InHandler /\ ~args.dry_run) =>
    /\ IsPrefixOf(AttemptedSeq, Targets)
    /\ pc = "done" => AttemptedSeq = Targets
\* a turn of a handler's loop, failed or not, goes on to the next position, and
\* the handler is left only once the iterator is exhausted
LoopLeftOnlyAtEnd ==
  (pc \in {"handle_delete", "handle_move_or_copy"} /\ ~args.dry_run) =>
    \/ pc' = pc /\ pos' = pos + 1 /\ pos <= Count(matching_files)
    \/ pc' = "done" /\ pos' = pos /\ pos > Count(matching_files) /\ errors' = errors

\* C6: a failure on one path never aborts the batch: whatever failed before, the
\* executor goes on to every later surviving path, in order, and the handler
\* returns only after the last one.
C6_FailureDoesNotAbort == []AttemptsFollowTargets /\ [][LoopLeftOnlyAtEnd]_vars

\* a finished run whose first call failed and which made a later call
C6_Witness ==
  /\ pc = "done" /\ ~args.dry_run
  /\ Len(Attempts) >= 2
  /\ ~Attempts[1].ok
  /\ errors >= 1

\* the survivors no file system call succeeded for
Unprocessed ==
  {p \in Range(Survivors) :
     ~\E c \in Range(calls) : c.src = p /\ c.ok /\ c.call \in {"remove_file", "rename", "copy"}}

\* C7: every per-path failure, a failed prefix strip included, is reported and
\* counted: at the end the counter is the number of survivors not processed, and
\* the summary is printed iff that number is not zero.
C7_EveryFailureCounted ==
  (pc = "done" /\ ~args.dry_run) =>
    /\ errors = Cardinality(Unprocessed)
    /\ Len(SelectSeq(err, LAMBDA l : l.text = "Error")) = Cardinality(Unprocessed)
    /\ (\E i \in 1..Len(err) : err[i].text = "errors occurred") <=> Cardinality(Unprocessed) > 0

\* ------------------------------------------------------------ digit runs, read off the name
DigitIdx(s) == {i \in 1..Len(s) : IsDigit(s[i])}
\* [b, e] is a maximal run of digits of s
IsRun(s, b, e) ==
  /\ b <= e
  /\ \A k \in b..e : k \in DigitIdx(s)
  /\ (b - 1) \notin DigitIdx(s)
  /\ (e + 1) \notin DigitIdx(s)
Runs(s) == {r \in (1..Len(s)) \X (1..Len(s)) : IsRun(s, r[1], r[2])}
FirstRun(s) == LET r == CHOOSE r \in Runs(s) : \A q \in Runs(s) : r[1] <= q[1]
               IN  SubSeq(s, r[1], r[2])
LastRun(s) == LET r == CHOOSE r \in Runs(s) : \A q \in Runs(s) : q[1] <= r[1]
              IN  SubSeq(s, r[1], r[2])
\* the run is a decimal numeral
Readable(run) == \A i \in 1..Len(run) : run[i] \in AsciiDigits
RECURSIVE Decimal(_)
Decimal(run) ==
  IF run = <<>> THEN 0
  ELSE 10 * Decimal(SubSeq(run, 1, Len(run) - 1)) + DigitValue(run[Len(run)])

\* C8 as stated: the LAST digit run of the name decides matches_number.
C8_LastRunDecides ==
  (pc = "matches_number" /\ DigitIdx(kpath.name.chars) # {}
     /\ Readable(LastRun(kpath.name.chars))) =>
    (mres <=> knum = Decimal(LastRun(kpath.name.chars)))

\* C8: the FIRST digit run of the name decides matches_number: when it reads as
\* the number d, matches_number(f, d) is true and matches_number(f, m) is false
\* for every other m, whatever later runs the name holds.
C8_FirstRunDecides ==
  (pc = "matches_number" /\ DigitIdx(kpath.name.chars) # {}
     /\ Readable(FirstRun(kpath.name.chars))) =>
    (mres <=> knum = Decimal(FirstRun(kpath.name.chars)))

\* a name with two runs of different value, matched by the number of the first
C8_Witness ==
  /\ pc = "matches_number"
  /\ Cardinality(Runs(kpath.name.chars)) >= 2
  /\ Readable(FirstRun(kpath.name.chars)) /\ Readable(LastRun(kpath.name.chars))
  /\ Decimal(FirstRun(kpath.name.chars)) # Decimal(LastRun(kpath.name.chars))
  /\ knum = Decimal(FirstRun(kpath.name.chars))
  /\ mres

\* C9: a name without a digit matches no number, and the inclusion matcher of
\* every keep list rejects it.
C9_NoDigitNoMatch ==
  DigitIdx(kpath.name.chars) = {} =>
    /\ pc = "matches_number" => ~mres
    /\ pc \in {"inclusion", "exclusion"} => ~ires

\* a name of letters only, rejected by the matcher of a keep list with an entry
C9_Witness ==
  /\ pc = "inclusion"
  /\ kpath.name.utf8 /\ Len(kpath.name.chars) >= 2 /\ DigitIdx(kpath.name.chars) = {}
  /\ Len(keep) >= 1
  /\ ~ires

\* the path has a file name whose first digit run reads as a number
Parseable(p) ==
  /\ p.name.utf8
  /\ DigitIdx(p.name.chars) # {}
  /\ Readable(FirstRun(p.name.chars))

\* C10: on a path with a parseable number, the inclusion and the exclusion
\* matcher of one keep list are negations of each other.
C10_MatchersAreNegations ==
  (pc = "exclusion" /\ Parseable(kpath)) => (ires <=> ~eres)

\* a listed name: included, not excluded
C10_Witness ==
  /\ pc = "exclusion" /\ Parseable(kpath)
  /\ Len(keep) >= 1
  /\ ires /\ ~eres

\* ------------------------------------------------------------ the configuration filter
\* the calls of the configuration made so far, by their results
AfterHasExtension == pc \in {"has_extension", "has_format", "matches", "into_filter"}
AfterHasFormat == pc \in {"has_format", "matches", "into_filter"}
AfterMatches == pc \in {"matches", "into_filter"}
\* the final component can be read as text
Usable(p) == p.name.chars # <<>> /\ p.name.utf8
\* the final component has a '.' that does not lead it
HasExt(p) == \E d \in 2..Len(p.name.chars) : p.name.chars[d] = "."
\* the text after the last '.'
ExtText(p) ==
  LET s == p.name.chars
      d == CHOOSE i \in 2..Len(s) : s[i] = "." /\ \A j \in (i + 1)..Len(s) : s[j] # "."
  IN  SubSeq(s, d + 1, Len(s))
\* a text with its upper-case letters replaced by the lower-case ones
Lowered(s) == [i \in 1..Len(s) |-> IF s[i] = "J" THEN "j" ELSE s[i]]

\* C11: matches(p) is has_extension(p) AND has_format(p), and the closure of
\* into_filter answers as matches does, for every path and configuration.
C11_MatchesIsConjunction ==
  /\ AfterMatches => (match_res <=> (ext_res /\ fmt_res))
  /\ pc = "into_filter" => (filter_res <=> match_res)

\* a path with a configured extension whose name no configured format matches:
\* all four calls made, matches and the closure both false
C11_Witness ==
  /\ pc = "into_filter"
  /\ config.extensions # <<>> /\ config.formats # <<>>
  /\ ext_res /\ ~fmt_res /\ ~match_res /\ ~filter_res

\* C12: with an empty extension set has_extension is true for every path, and
\* matches reduces to has_format.
C12_EmptySetIsWildcard ==
  config.extensions = <<>> =>
    /\ AfterHasExtension => ext_res
    /\ AfterMatches => (match_res <=> fmt_res)

\* C13: with a non-empty extension set has_extension is true iff the path has
\* an extension whose lower-cased text is in the set; a path with no extension
\* gives false.
C13_HasExtensionLowercased ==
  (AfterHasExtension /\ config.extensions # <<>>) =>
    (ext_res <=> (HasExt(kpath) /\ Lowered(ExtText(kpath)) \in Range(config.extensions)))

\* an upper-case extension accepted through its lower-case configured form
C13_Witness ==
  /\ AfterHasExtension
  /\ config.extensions # <<>>
  /\ HasExt(kpath) /\ ExtText(kpath) = <<"J">>
  /\ ext_res

Accepted(list, m) == {i \in 1..Len(list) : Call(m, list[i])}
\* the k-th least of a set of positions
Nth(idx, k) == CHOOSE i \in idx : Cardinality({j \in idx : j <= i}) = k
\* the paths at those positions, in the order of the list
Narrowed(list, idx) == [k \in 1..Cardinality(idx) |-> list[Nth(idx, k)]]
\* the view is a FilteredFiles
IsFiltered == Len(matching_files.matchers) >= 1
\* the view is a FilteredFiles of a FilteredFiles
IsChained == Len(matching_files.matchers) >= 2
\* the closures of the last filter_by and of the one before
PredB == Last(matching_files.matchers)
PredA == Last(SourceOf(matching_files).matchers)

\* C15: source.filter_by(A).filter_by(B) iterates the same paths in the same
\* order as source.filter_by(A AND B), and counts the source elements that
\* satisfy both.
C15_ChainIsConjunction ==
  IsChained =>
    LET source == SourceOf(SourceOf(matching_files))
    IN  /\ iterated.some =>
             iterated.val = Iter(filter_by(source, AndMatcher(PredA, PredB)))
        /\ counted.some =>
             counted.val = Cardinality(Accepted(Iter(source), PredA)
                                       \cap Accepted(Iter(source), PredB))

\* a chained view that keeps some of what A keeps and drops the rest, iterated
\* and counted
C15_Witness ==
  /\ IsChained
  /\ iterated.some /\ counted.some
  /\ Len(tree) >= 2
  /\ \E i \in 1..Len(tree) : Call(PredA, tree[i]) /\ Call(PredB, tree[i])
  /\ \E i \in 1..Len(tree) : Call(PredA, tree[i]) /\ ~Call(PredB, tree[i])
  /\ counted.val >= 1

\* C16: a filtered collection yields exactly the source elements that satisfy
\* P, each as often and in the order the source yields it, and nothing else;
\* count() is their number.
C16_YieldsExactlySatisfying ==
  IsFiltered =>
    LET source == Iter(SourceOf(matching_files))
        idx == Accepted(source, PredB)
    IN  /\ iterated.some =>
             /\ iterated.val = Narrowed(source, idx)
             /\ \A k \in 1..Len(iterated.val) :
                  Call(PredB, iterated.val[k]) /\ iterated.val[k] \in Range(source)
             /\ \A i \in 1..Len(source) :
                  Call(PredB, source[i]) => source[i] \in Range(iterated.val)
        /\ counted.some => counted.val = Cardinality(idx)

\* a source of which P keeps some paths and drops others, iterated and counted
C16_Witness ==
  /\ Len(matching_files.matchers) = 1
  /\ iterated.some /\ counted.some
  /\ counted.val >= 1 /\ counted.val < Len(tree)

\* C17: iter(), count() and filter_by leave the underlying path list and its
\* order as they were, and two successive iterations of a view yield the same
\* sequence.
C17_IterationDoesNotConsume ==
  /\ pc = "source" => matching_files.files = tree
  /\ (pc = "source" /\ iterated.some /\ previous.some) => iterated.val = previous.val

\* a filtered view over a non-empty list, counted and iterated twice
C17_Witness ==
  /\ pc = "source"
  /\ IsFiltered
  /\ counted.some /\ iterated.some /\ previous.some
  /\ iterated.val # <<>>

\* ------------------------------------------------------------ keep-file loading
\* the file was opened and try_load has returned
Loaded == pc = "try_load" /\ loaded.kind # "Io"
\* the line is an unsigned integer: digits only, after an optional sign
IsUnsigned(line) ==
  /\ line.utf8
  /\ LET t == IF line.chars # <<>> /\ line.chars[1] = "+" THEN Tail(line.chars) ELSE line.chars
     IN  t # <<>> /\ Readable(t)
\* its value
Unsigned(line) ==
  Decimal(IF line.chars[1] = "+" THEN Tail(line.chars) ELSE line.chars)
\* the 1-based numbers of the lines that are not unsigned integers
Offending == {i \in 1..Len(keepfile) : ~IsUnsigned(keepfile[i])}

\* C18: the result is a KeepList iff every line parses as an unsigned integer;
\* otherwise it is a format error listing every offending line in file order
\* with its 1-based number and raw text, and no keep list.
C18_LoadIsAtomic ==
  Loaded =>
    /\ loaded.kind = "KeepFile" <=> Offending = {}
    /\ Offending # {} =>
         /\ loaded.kind = "Format"
         /\ loaded.lines = <<>>
         /\ Len(loaded.invalid) = Cardinality(Offending)
         /\ \A k \in 1..Len(loaded.invalid) :
              /\ loaded.invalid[k].num = Nth(Offending, k)
              /\ loaded.invalid[k].line = keepfile[Nth(Offending, k)].chars

RegularFiles == {p \in DOMAIN disk : disk[p].kind = "file" /\ IsPrefixOf(Root, p)}
\* no component of the path is a link
LinkFree(p) == \A k \in 1..Len(p) : disk[SubSeq(p, 1, k)].kind # "link"

\* C20: for a finite tree without link cycles and without I/O errors the
\* traversal returns every regular file contained in the root exactly once, no
\* directory and no path outside the tree, and every returned path is
\* canonical.
C20_TraversalReturnsExactlyTheFiles ==
  (pc = "walked" /\ dropped = {}) =>
    /\ \A f \in RegularFiles : Cardinality({i \in 1..Len(found) : found[i] = f}) = 1
    /\ \A i \in 1..Len(found) :
         /\ disk[found[i]].kind # "dir"
         /\ IsPrefixOf(Root, found[i])
         /\ LinkFree(found[i])

\* C21: an I/O error met while reading a directory, the root, a subdirectory or
\* one of their entries, aborts the traversal: the traversal never returns a
\* list from which a regular file of the tree is missing.
C21_NoFileLostToSwallowedError ==
  pc = "walked" => RegularFiles \subseteq Range(found)

\* the same once no entry's error was passed over: nothing else loses a file
C21_LossOnlyByDroppedEntry ==
  (pc = "walked" /\ dropped = {}) => RegularFiles \subseteq Range(found)

\* ------------------------------------------------------------ the run from its arguments
\* AppConfig::try_from returned Ok
Configured == loaded.kind = "KeepFile"
\* nothing has been scanned, filtered, reported or done to the file system
NothingStarted ==
  /\ matching_files = SelectedFiles(Root, <<>>)
  /\ calls = <<>>
  /\ fs = InitFs(tree)
  /\ dirs = InitDirs(tree)
  /\ \A i \in 1..Len(out) : out[i].text \notin {"Matching files", "Keeping files"}

\* C22: a selected directory is only made from a path that exists and is a
\* directory; for any other path the run ends with the invalid-input error
\* before any traversal, filtering or file action.
C22_InvalidDirectoryEndsTheRun ==
  (~env.dir_ok /\ pc # "main") =>
    /\ pc = "done"
    /\ err = <<FatalLine("Invalid directory")>>
    /\ out = <<>>
    /\ ~Configured
    /\ NothingStarted

\* an invalid directory given with everything else in order and an action that
\* would change files: the run has ended
C22_Witness ==
  /\ pc = "done"
  /\ ~env.dir_ok /\ env.canon_ok /\ env.keep_opened /\ "local" \in env.loads
  /\ keepfile = <<OsStr(<<"1">>)>>
  /\ args.move_to.some /\ ~args.dry_run /\ ~args.print_config

\* a hard configuration failure was reported
ConfigFailed == FatalLine("Config") \in Range(err)
\* the places ConfigFile::load falls back through, in order
Chain == <<"local", "exe", "parent", "embedded">>
Loading == {i \in 1..Len(Chain) : Chain[i] \in env.loads}
FirstLoading == CHOOSE i \in Loading : \A j \in Loading : i <= j

\* C27 as stated: configuration loading never surfaces a hard failure, also
\* for an explicitly given configuration path.
C27_LoadingNeverFails ==
  pc # "main" => ~ConfigFailed

\* C27 amended: without an explicit configuration path loading never fails
\* and takes the first of directory-local, executable-adjacent,
\* parent-of-executable, embedded, hardcoded that loads; an explicitly given
\* path that fails to load is a hard failure ending the run before any scan.
C27_FallbackOnlyWithoutExplicitPath ==
  (pc # "main" /\ SelectPath(env) = "") =>
    /\ ConfigFailed <=> (args.config.some /\ "explicit" \notin env.loads)
    /\ ConfigFailed => pc = "done" /\ ~Configured /\ NothingStarted
    /\ Configured =>
         config.name = IF args.config.some THEN "explicit"
                       ELSE IF Loading = {} THEN "default_all"
                       ELSE Chain[FirstLoading]

\* an explicit path that does not load while every fallback place would: the
\* run ended with the configuration error
C27_Witness ==
  /\ pc = "done"
  /\ args.config.some
  /\ env.loads = ConfigPlaces \ {"explicit"}
  /\ ConfigFailed

\* C28: with print_config set and the configuration and keep file loaded, the
\* run prints the configuration and exits: no traversal, no count report and
\* no change of the file system, for every action, dry-run or not, verbose or
\* not.
C28_PrintConfigOnlyPrints ==
  (args.print_config /\ Configured) =>
    /\ pc \in {"app_config", "done"}
    /\ NothingStarted
    /\ err = <<>>
    /\ out = IF pc = "done" THEN <<ConfigLine(config)>> ELSE <<>>

\* print_config given together with -d, verbose, no dry run: the run is over
C28_Witness ==
  /\ pc = "done"
  /\ args.print_config /\ Configured
  /\ args.delete /\ args.verbose /\ ~args.dry_run
  /\ out = <<ConfigLine(config)>>

\* ------------------------------------------------------------ the phases of a run
IsCountLine(l) == l.text \in {"Matching files", "Keeping files"}
CountLines == SelectSeq(out, IsCountLine)

\* C23: the phases are strictly ordered: the scan comes before any count
\* report, the stage-1 report before the stage-2 report, both before the first
\* change of the file system, and no report is printed once execution started.
C23_PhasesAreOrdered ==
  /\ CountLines # <<>> => matching_files.files = tree /\ pc \notin {"start", "configured", "scanned"}
  /\ Len(CountLines) <= 2
  /\ \A i \in 1..Len(CountLines) :
       CountLines[i].text = IF i = 1 THEN "Matching files" ELSE "Keeping files"
  /\ ~InHandler => fs = InitFs(tree) /\ dirs = InitDirs(tree) /\ calls = <<>> /\ PerFileLines = <<>>
  /\ InHandler =>
       /\ Len(CountLines) = IF args.verbose THEN 2 ELSE 0
       /\ SubSeq(out, 1, Len(CountLines)) = CountLines

\* a verbose run that changed the file system: both reports, then the lines of
\* the files
C23_Witness ==
  /\ pc = "done"
  /\ args.verbose /\ ~args.dry_run
  /\ \E i \in 1..Len(calls) : calls[i].ok
  /\ Len(out) >= 3

\* ------------------------------------------------------------ the counts
\* the number of stage-1 files whose identifier is in the keep list
KeptOfStage1 == Len(SelectSeq(Stage1Files, Listed))
KeepingLines == SelectSeq(out, LAMBDA l : l.text = "Keeping files")

\* C24: the verbose 'keeping' count is the number of stage-1 matching files
\* whose identifier is in the keep list: for Move/Copy the stage-2 survivors,
\* for Delete matching minus survivors; and 0 <= keeping <= matching <= total.
C24_KeepingCount ==
  \A i \in 1..Len(KeepingLines) :
    LET keeping == KeepingLines[i].n
        matching == KeepingLines[i].m
    IN  /\ keeping = KeptOfStage1
        /\ matching = Len(Stage1Files)
        /\ keeping = IF action.kind = "Delete" THEN matching - Len(Survivors) ELSE Len(Survivors)
        /\ 0 <= keeping /\ keeping <= matching /\ matching <= Len(tree)

\* a verbose Delete where one of two matching files is kept
C24_Witness ==
  /\ action.kind = "Delete"
  /\ KeepingLines = <<CountLine("Keeping files", 1, 2)>>
  /\ Len(Survivors) = 1

\* ------------------------------------------------------------ the destinations
\* the path below the selected directory, component by component
Below(p) == [k \in 1..(Len(p.dir) - Len(Root)) |-> p.dir[Len(Root) + k]]
\* the transfers attempted and, in a dry run, announced
Announced == SelectSeq(out, LAMBDA l : l.text \in {"moved", "copied"})
Pairs ==
  {[src |-> Attempts[i].src, dest |-> Attempts[i].dest] : i \in 1..Len(Attempts)}
    \cup {[src |-> Announced[i].src, dest |-> Announced[i].dest] : i \in 1..Len(Announced)}

\* C25: the destination of a Move/Copy is dest_dir joined with the source's
\* path relative to the root of the collection (root/a/b/f goes to
\* dest_dir/a/b/f), the root being the directory of the innermost collection.
C25_DestinationKeepsRelativePath ==
  pc \in {"handle_move_or_copy", "done"} /\ action.kind = "MoveOrCopyTo" =>
    /\ Dir(matching_files) = Root
    /\ \A t \in Pairs :
         /\ UnderRoot(t.src)
         /\ t.dest.name = t.src.name
         /\ t.dest.dir = action.dir \o Below(t.src)

\* a file of a subdirectory transferred: the subdirectory is kept below dest_dir
C25_Witness ==
  /\ pc = "done"
  /\ action.kind = "MoveOrCopyTo"
  /\ \E i \in 1..Len(calls) :
       /\ calls[i].call \in {"rename", "copy"}
       /\ calls[i].ok
       /\ calls[i].src.dir = <<"r", "s">>
       /\ calls[i].dest.dir = <<"out", "s">>

\* C29: within one Move/Copy batch distinct surviving sources have distinct
\* destinations, so no transfer overwrites the output of another.
C29_DestinationsAreDistinct ==
  action.kind = "MoveOrCopyTo" =>
    \A t, u \in Pairs : t.src # u.src => t.dest # u.dest

\* two distinct sources transferred in one batch
C29_Witness ==
  /\ pc = "done"
  /\ action.kind = "MoveOrCopyTo"
  /\ \E i, j \in 1..Len(calls) :
       /\ calls[i].call \in {"rename", "copy"} /\ calls[i].ok
       /\ calls[j].call \in {"rename", "copy"} /\ calls[j].ok
       /\ calls[i].src # calls[j].src

\* ------------------------------------------------------------ the effect of a transfer
\* this step made a transfer (create_dir_all, then rename or copy) that succeeded
TransferSucceeded ==
  /\ Len(calls') = Len(calls) + 2
  /\ Last(calls').call \in {"rename", "copy"}
  /\ Last(calls').ok
\* the destination exists, below directories that exist and were created
\* before the transfer was called
DestinationInPlace ==
  LET made == Last(calls')
  IN  /\ made.dest \in DOMAIN fs'
      /\ Prefixes(made.dest.dir) \subseteq dirs'
      /\ calls'[Len(calls') - 1] = FsCall("create_dir_all", made.src, made.dest, TRUE)

\* C26 as stated: after a successful transfer that is no dry run, for Copy the
\* source still exists and the destination exists, for Move the destination
\* exists and the source no longer exists; the destination's parent
\* directories exist before the rename or copy.
C26_TransferEffect ==
  [][TransferSucceeded =>
       /\ DestinationInPlace
       /\ IF Last(calls').call = "copy"
          THEN Last(calls').src \in DOMAIN fs'
          ELSE Last(calls').src \notin DOMAIN fs']_vars

\* C26 amended: the same, except that a Move whose destination is the source
\* path itself leaves the file where it is.
C26_TransferEffectUnlessOntoItself ==
  [][TransferSucceeded =>
       /\ DestinationInPlace
       /\ IF Last(calls').call = "copy"
          THEN Last(calls').src \in DOMAIN fs'
          ELSE Last(calls').src \notin DOMAIN fs' <=> Last(calls').dest # Last(calls').src]_vars

\* a successful Move into the selected directory itself: the file is still at
\* its path
C26_Witness ==
  /\ pc = "done"
  /\ \E i \in 1..Len(calls) :
       calls[i].call = "rename" /\ calls[i].ok /\ calls[i].dest = calls[i].src
            /\ calls[i].src \in DOMAIN fs

\* a successful Move to another directory: the source is gone
C26_MovedAway ==
  /\ pc = "done"
  /\ \E i \in 1..Len(calls) :
       calls[i].call = "rename" /\ calls[i].ok /\ calls[i].dest # calls[i].src
            /\ calls[i].src \notin DOMAIN fs /\ calls[i].dest \in DOMAIN fs

\* ------------------------------------------------------------ termination
\* both filters were applied: the handler was entered
Executed == Len(matching_files.matchers) = 2
\* the handler's loop went through the whole list
LoopFinished == pos = Count(matching_files) + 1
\* the run is over and, when it came to the handler, the loop visited each
\* survivor of the scanned list once, in order
RunOver ==
  /\ pc = "done"
  /\ Executed =>
       /\ (~args.dry_run \/ action.kind = "MoveOrCopyTo") => LoopFinished
       /\ ~args.dry_run => AttemptedSeq = Targets
       /\ Iter(matching_files) = Survivors

\* C30: every run over a finite file collection terminates: the executor
\* visits each surviving path of the list taken at scan time exactly once, in
\* order, and then stops, also when every operation fails.
C30_RunTerminates == <>[]RunOver

\* a run in which the operation failed on each of two files has ended
C30_Witness ==
  /\ pc = "done"
  /\ Executed /\ ~args.dry_run
  /\ Len(Targets) = 2
  /\ Len(Attempts) = 2
  /\ \A i \in 1..Len(calls) : calls[i].call \in {"rename", "copy", "remove_file"} => ~calls[i].ok
  /\ errors = 2

====
